---- MODULE Spec2Model ----
(***************************************************************************)
(* DNS record lookup tool (dns_lookup_class.py): the constructor, domain   *)
(* cleaning and validation, the per-type resolver loop of get_dns_records, *)
(* the exports and the run_cli driver; and the script dns_record.py, run   *)
(* beside the tool.  Strings are sequences of one-character strings.       *)
(***************************************************************************)
EXTENDS Integers, Sequences, FiniteSets, TLC

VARIABLES
    config,            \* self.config (the sections the modelled code reads)
    domain_arg,        \* the raw domain handed to the operation
    record_types_arg,  \* the record_types argument (NoTypes = None)
    quiet,             \* the quiet argument
    export_json,       \* run_cli's export_json argument (TRUE = a file name given)
    export_csv,        \* run_cli's export_csv argument
    pc,                \* position of the running call
    website,           \* get_dns_records' local website (the cleaned domain)
    valid,             \* the value last returned by validate_domain
    record_types,      \* get_dns_records' local record_types after defaulting
    idx,               \* position of the for loop in record_types
    dns_record,        \* the dict being accumulated (insertion ordered)
    domain_exists,     \* get_dns_records' local flag
    ret,               \* the value returned by get_dns_records
    calls,             \* resolve calls issued during this lookup, in order
    answers,           \* what the resolver answered to each call
    last_result,       \* the value last returned by fetch_record_type
    log,               \* calls made to self.logger during this lookup
    displayed,         \* display_records was called on the result
    files,             \* the export files written by this run
    lookups,           \* number of lookups the batch caller has started
    prev,              \* what the batch caller kept of the previous lookup
    stdout,            \* the diagnostic messages printed, in order
    exc,               \* the exception get_dns_records raised (NoException = none)
    config_file,       \* the configuration file the constructor is given
    loaded,            \* self.config in full, as the constructor sets it
    script             \* the run of the dns_record.py script: its position and locals

vars == <<config, domain_arg, record_types_arg, quiet, export_json, export_csv,
          pc, website, valid, record_types, idx, dns_record, domain_exists,
          ret, calls, answers, last_result, log, displayed, files, lookups, prev,
          stdout, exc, config_file, loaded, script>>

-----------------------------------------------------------------------------
(* Strings *)

None == <<"None">>

Lower == {"a","b","c","d","e","f","g","h","i","j","k","l","m",
          "n","o","p","q","r","s","t","u","v","w","x","y","z"}
Upper == {"A","B","C","D","E","F","G","H","I","J","K","L","M",
          "N","O","P","Q","R","S","T","U","V","W","X","Y","Z"}
Digit == {"0","1","2","3","4","5","6","7","8","9"}

\* [a-zA-Z0-9]
Alnum == Lower \cup Upper \cup Digit

\* [a-zA-Z0-9\-]
AlnumHyphen == Alnum \cup {"-"}

\* the characters str.strip() removes
Whitespace == {" ", "\t", "\n", "\r"}

\* Python's "not domain" for a string or None
Falsy(s) == s = None \/ s = <<>>

HTTP == <<"h","t","t","p",":","/","/">>
HTTPS == <<"h","t","t","p","s",":","/","/">>
WWW == <<"w","w","w",".">>

\* old occurs in s at position i
OccursAt(s, old, i) ==
    /\ i + Len(old) - 1 <= Len(s)
    /\ \A k \in 1..Len(old) : s[i + k - 1] = old[k]

Contains(s, old) == \E i \in 1..Len(s) : OccursAt(s, old, i)

-----------------------------------------------------------------------------
(* validate_domain *)

\* len(domain) > 253
MaxDomainLen == 253

\* the {0,61} of the pattern: a label has at most 61 characters between its
\* first and its last
MaxRepeat == 61

\* The positions j at which one match of
\*     [a-zA-Z0-9]([a-zA-Z0-9\-]{0,61}[a-zA-Z0-9])?
\* starting at position i of s can end (no further than e).
LabelEnds(s, i, e) ==
    IF i > e \/ s[i] \notin Alnum THEN {}
    ELSE {i} \cup
         {j \in (i + 1)..(IF e < i + MaxRepeat + 1 THEN e ELSE i + MaxRepeat + 1) :
              /\ s[j] \in Alnum
              /\ \A k \in (i + 1)..(j - 1) : s[k] \in AlnumHyphen}

\* (\.<label>)* matches s from position j + 1 up to exactly position e
RECURSIVE MatchRest(_, _, _)
MatchRest(s, j, e) ==
    \/ j = e
    \/ /\ j + 1 <= e
       /\ s[j + 1] = "."
       /\ \E j2 \in LabelEnds(s, j + 2, e) : MatchRest(s, j2, e)

\* The positions where $ matches: the end of the string, and just before a
\* newline that is the last character of the string.
DollarEnds(s) ==
    {Len(s)} \cup (IF Len(s) >= 1 /\ s[Len(s)] = "\n" THEN {Len(s) - 1} ELSE {})

\* re.match(domain_pattern, domain) is not None
ReMatch(s) ==
    \E e \in DollarEnds(s) : \E j \in LabelEnds(s, 1, e) : MatchRest(s, j, e)

\* a plausible slip: >= 253 instead of > 253
validate_domain_offbyone(domain) ==
    IF Falsy(domain) \/ Len(domain) >= MaxDomainLen THEN FALSE ELSE ReMatch(domain)

validate_domain(domain) ==
    IF Falsy(domain) \/ Len(domain) > MaxDomainLen THEN FALSE ELSE ReMatch(domain)

-----------------------------------------------------------------------------
(* clean_domain *)

\* a strip that takes one whitespace character off each end, at most
Strip_once(s) ==
    LET a == IF Len(s) > 0 /\ s[1] \in Whitespace THEN 2 ELSE 1
        b == IF Len(s) >= a /\ s[Len(s)] \in Whitespace THEN Len(s) - 1 ELSE Len(s)
    IN  SubSeq(s, a, b)

\* str.strip()
Strip(s) ==
    LET keep == {i \in 1..Len(s) : s[i] \notin Whitespace}
    IN  IF keep = {} THEN <<>>
        ELSE SubSeq(s, CHOOSE i \in keep : \A k \in keep : i <= k,
                       CHOOSE i \in keep : \A k \in keep : i >= k)

\* str.replace(old, ''): every non-overlapping occurrence, left to right
RECURSIVE RemoveFrom(_, _, _)
RemoveFrom(s, old, i) ==
    IF i > Len(s) THEN <<>>
    ELSE IF OccursAt(s, old, i) THEN RemoveFrom(s, old, i + Len(old))
    ELSE <<s[i]>> \o RemoveFrom(s, old, i + 1)

\* a replace that stops after the first occurrence: str.replace(old, '', 1)
RemoveAll_first(s, old) ==
    LET at == {i \in 1..Len(s) : OccursAt(s, old, i)}
    IN  IF at = {} THEN s
        ELSE LET i == CHOOSE i \in at : \A k \in at : i <= k
             IN  SubSeq(s, 1, i - 1) \o SubSeq(s, i + Len(old), Len(s))

RemoveAll(s, old) == RemoveFrom(s, old, 1)

\* str.split('/')[0]
BeforeSlash(s) ==
    LET cut == {i \in 1..Len(s) : s[i] = "/"}
    IN  IF cut = {} THEN s
        ELSE SubSeq(s, 1, (CHOOSE i \in cut : \A k \in cut : i <= k) - 1)

\* a plausible slip: the path cut off first, before the schemes are removed
clean_domain_cutfirst(domain) ==
    IF Falsy(domain) THEN domain
    ELSE RemoveAll(RemoveAll(RemoveAll(BeforeSlash(Strip(domain)), HTTP), HTTPS), WWW)

\* clean_domain: strip, remove the schemes, remove 'www.', cut at the first '/'
clean_domain(domain) ==
    IF Falsy(domain) THEN domain
    ELSE BeforeSlash(RemoveAll(RemoveAll(RemoveAll(Strip(domain), HTTP), HTTPS), WWW))

-----------------------------------------------------------------------------
(* Inputs of the pure functions *)

\* c repeated n times
Rep(c, n) == [i \in 1..n |-> c]

\* every string made of at most n pieces
RECURSIVE Concats(_, _)
Concats(pieces, n) ==
    IF n = 0 THEN {<<>>}
    ELSE LET shorter == Concats(pieces, n - 1)
         IN  shorter \cup {x \o p : x \in shorter, p \in pieces}

MaxValidatePieces == 5
MaxCleanPieces == 4

\* 61 alphanumerics, and a full 63-letter label with its dot: four pieces
\* reach the 253-character limit, five pass it
ValidatePieces ==
    { <<"a">>, <<"-">>, <<".">>, <<"\n">>, <<" ">>,
      <<"Z", "9">> \o Rep("a", 59), Rep("a", 63) \o <<".">> }

ValidateInputs == Concats(ValidatePieces, MaxValidatePieces) \cup {None}

CleanPieces ==
    { <<" ">>, <<"\n">>, HTTP, HTTPS, WWW, <<"a">>, <<"w">>, <<"w", "w">>, <<".">>,
      <<"/">> }

CleanInputs == Concats(CleanPieces, MaxCleanPieces) \cup {None}

-----------------------------------------------------------------------------
(* Python values *)

\* an ordered dict: a sequence of <<key, value>> pairs with distinct keys
EmptyDict == <<>>

DictKeys(d) == [i \in 1..Len(d) |-> d[i][1]]

HasKey(d, k) == \E i \in 1..Len(d) : d[i][1] = k

\* d[k]
DictGet(d, k) == d[CHOOSE i \in 1..Len(d) : d[i][1] = k][2]

\* d[k] = v: an existing key keeps its place, a new key goes last
DictSet(d, k, v) ==
    IF HasKey(d, k)
    THEN [i \in 1..Len(d) |-> IF d[i][1] = k THEN <<k, v>> ELSE d[i]]
    ELSE Append(d, <<k, v>>)

\* a str value
Str(text) == [str |-> text]

\* isinstance(record, dict)
IsDict(record) == "str" \notin DOMAIN record

\* the return value of get_dns_records and of fetch_record_type: None, or a
\* dict (a list)
NoneRet == [isNone |-> TRUE, dict |-> EmptyDict]
DictRet(d) == [isNone |-> FALSE, dict |-> d]
NoneResult == [isNone |-> TRUE, list |-> <<>>]
ListResult(l) == [isNone |-> FALSE, list |-> l]

\* "not dns_record" in run_cli
NotDnsRecord(r) == r.isNone \/ r.dict = EmptyDict

\* record_types = None
NoTypes == <<"None">>

\* a plausible slip: "if record_types is None", which lets an empty list through
NotRecordTypes_noneonly(t) == t = NoTypes

\* "not record_types"
NotRecordTypes(t) == t = NoTypes \/ t = <<>>

\* f'{record_type}_Records'
RecordsKey(record_type) ==
    CASE record_type = "A" -> "A_Records"
      [] record_type = "AAAA" -> "AAAA_Records"
      [] record_type = "CNAME" -> "CNAME_Records"
      [] record_type = "MX" -> "MX_Records"
      [] record_type = "NS" -> "NS_Records"
      [] record_type = "TXT" -> "TXT_Records"
      [] record_type = "SOA" -> "SOA_Records"

\* JSON values as json.load returns them, tagged by their Python type; a
\* number is kept as its text, an object as an ordered dict
JNull == [t |-> "null"]
JBool(b) == [t |-> "bool", b |-> IF b THEN "true" ELSE "false"]
JNum(n) == [t |-> "num", n |-> n]
JStr(text) == [t |-> "str", s |-> text]
JList(l) == [t |-> "list", l |-> l]
JObj(d) == [t |-> "obj", o |-> d]

\* bool(value)
Truthy(value) ==
    CASE value.t = "null" -> FALSE
      [] value.t = "bool" -> value.b = "true"
      [] value.t = "num" -> value.n # "0"
      [] value.t = "str" -> value.s # ""
      [] value.t = "list" -> value.l # <<>>
      [] value.t = "obj" -> value.o # <<>>

\* what stands around a key in the strings a file is given here
Affixes == {"", " "}

\* "key in container" raises TypeError unless the container is one of these
CanContain(container) == container.t \in {"obj", "list", "str"}

\* key in container: a dict key, a list element, a substring
PyIn(key, container) ==
    CASE container.t = "obj" -> HasKey(container.o, key)
      [] container.t = "list" ->
           \E i \in 1..Len(container.l) : container.l[i] = JStr(key)
      [] container.t = "str" ->
           \E a \in Affixes, b \in Affixes : container.s = a \o key \o b

\* container[key] with a str key, read or assigned, raises TypeError unless
\* the container is a dict
IsJObj(container) == container.t = "obj"

\* the result of a step that may raise
Ok(value) == [ok |-> TRUE, v |-> value]
Raises == [ok |-> FALSE, v |-> JNull]

LogFormat == "%(asctime)s - %(name)s - %(levelname)s - %(message)s"

SectionNames == <<"dns_settings", "display_settings", "export_settings", "logging">>

\* default_config[section]
DefaultSection(section) ==
    CASE section = "dns_settings" ->
           << <<"timeout", JNum("10")>>, <<"retries", JNum("3")>>,
              <<"default_nameserver", JNull>>,
              <<"record_types",
                JList(<<JStr("A"), JStr("AAAA"), JStr("CNAME"), JStr("MX"),
                        JStr("NS"), JStr("TXT"), JStr("SOA")>>)>> >>
      [] section = "display_settings" ->
           << <<"use_colors", JBool(TRUE)>>, <<"max_txt_length", JNum("70")>>,
              <<"table_format", JBool(TRUE)>>, <<"show_progress", JBool(TRUE)>> >>
      [] section = "export_settings" ->
           << <<"json_indent", JNum("2")>>, <<"csv_delimiter", JStr(",")>>,
              <<"include_timestamp", JBool(TRUE)>> >>
      [] section = "logging" ->
           << <<"level", JStr("INFO")>>, <<"file", JStr("dns_lookup.log")>>,
              <<"max_size_mb", JNum("10")>>, <<"backup_count", JNum("3")>>,
              <<"format", JStr(LogFormat)>> >>

default_config ==
    JObj([i \in 1..Len(SectionNames) |->
             <<SectionNames[i], JObj(DefaultSection(SectionNames[i]))>>])

\* a merge in which the defaults overwrite what the file gives
RECURSIVE MergeSection_defaultwins(_, _, _)
MergeSection_defaultwins(section, defaults, k) ==
    IF k > Len(defaults) THEN Ok(section)
    ELSE IF ~IsJObj(section) THEN Raises
    ELSE MergeSection_defaultwins(
             JObj(DictSet(section.o, defaults[k][1], defaults[k][2])), defaults, k + 1)

\* the inner loop, from the k-th default key on:
\*   if key not in config[section]: config[section][key] = default
RECURSIVE MergeSection(_, _, _)
MergeSection(section, defaults, k) ==
    IF k > Len(defaults) THEN Ok(section)
    ELSE IF ~CanContain(section) THEN Raises
    ELSE IF PyIn(defaults[k][1], section) THEN MergeSection(section, defaults, k + 1)
    ELSE IF ~IsJObj(section) THEN Raises
    ELSE MergeSection(
             JObj(DictSet(section.o, defaults[k][1], defaults[k][2])), defaults, k + 1)

\* the outer loop, from the i-th default section on
RECURSIVE MergeSections(_, _)
MergeSections(cfg, i) ==
    IF i > Len(SectionNames) THEN Ok(cfg)
    ELSE LET section == SectionNames[i]
         IN  IF ~CanContain(cfg) THEN Raises
             ELSE IF ~PyIn(section, cfg)
             THEN IF ~IsJObj(cfg) THEN Raises
                  ELSE MergeSections(
                           JObj(DictSet(cfg.o, section, JObj(DefaultSection(section)))),
                           i + 1)
             ELSE IF ~IsJObj(cfg) THEN Raises
             ELSE LET merged == MergeSection(DictGet(cfg.o, section),
                                             DefaultSection(section), 1)
                  IN  IF ~merged.ok THEN Raises
                      ELSE MergeSections(JObj(DictSet(cfg.o, section, merged.v)), i + 1)

\* the configuration file: missing, unreadable (open or json.load raises), or
\* parsed to a JSON value
MissingFile == [kind |-> "missing", value |-> JNull]
UnreadableFile == [kind |-> "unreadable", value |-> JNull]
ParsedFile(value) == [kind |-> "parsed", value |-> value]

\* load_config: the configuration returned, and whether the warning is printed
load_config(file) ==
    IF file.kind = "missing" THEN [config |-> default_config, warned |-> FALSE]
    ELSE IF file.kind = "unreadable" THEN [config |-> default_config, warned |-> TRUE]
    ELSE LET merged == MergeSections(file.value, 1)
         IN  IF merged.ok THEN [config |-> merged.v, warned |-> FALSE]
             ELSE [config |-> default_config, warned |-> TRUE]

\* the names getattr(logging, name) turns into a level setLevel accepts
LevelNames == {"NOTSET", "DEBUG", "INFO", "WARNING", "WARN", "ERROR", "CRITICAL", "FATAL"}

\* no exception
NoException == ""

\* the exception setup_logging raises on this configuration, if any:
\* log_config['level'], getattr(logging, ...) and setLevel, Formatter(...),
\* RotatingFileHandler(...)
setup_logging(cfg) ==
    LET log_config == DictGet(cfg.o, "logging")
    IN  IF ~IsJObj(log_config) THEN "TypeError"
        ELSE LET level == DictGet(log_config.o, "level")
                 format == DictGet(log_config.o, "format")
                 file == DictGet(log_config.o, "file")
                 max_size_mb == DictGet(log_config.o, "max_size_mb")
             IN  IF level.t # "str" THEN "TypeError"
                 ELSE IF level.s \notin LevelNames THEN "AttributeError"
                 ELSE IF format.t \notin {"null", "str"} THEN "TypeError"
                 ELSE IF format.t = "str" /\ format.s # LogFormat THEN "ValueError"
                 ELSE IF ~Truthy(file) THEN NoException
                 ELSE IF file.t # "str" \/ max_size_mb.t \notin {"num", "bool"}
                 THEN "TypeError"
                 ELSE NoException

\* the exception the rest of __init__ raises, if any: dns_config['timeout'],
\* dns_config['default_nameserver']
ConfigureResolver(cfg) ==
    IF IsJObj(DictGet(cfg.o, "dns_settings")) THEN NoException ELSE "TypeError"

NoFile == [written |-> FALSE, data |-> <<>>]
NoFiles == [json |-> NoFile, csv |-> NoFile]

NoPrev == [seen |-> FALSE, isNone |-> FALSE, failure |-> ""]

\* the dns_record.py script when it is not run
NoScript ==
    [pc |-> "idle", website |-> <<>>, calls |-> <<>>, answers |-> <<>>,
     dns_record |-> NoneRet, displayed |-> FALSE, files |-> NoFiles]

\* cfg[section][key]
Setting(cfg, section, key) == DictGet(DictGet(cfg.o, section).o, key)

\* dns_settings.record_types as get_dns_records iterates over it: the list
\* of names, or a value "for" cannot iterate over
TypeList(value) ==
    IF value.t = "list" THEN [i \in 1..Len(value.l) |-> value.l[i].s]
    ELSE NoTypes

\* the settings the lookup and the exports read from self.config
ConfigOf(cfg) ==
    [record_types |-> TypeList(Setting(cfg, "dns_settings", "record_types")),
     include_timestamp |-> Truthy(Setting(cfg, "export_settings", "include_timestamp")),
     show_progress |-> Truthy(Setting(cfg, "display_settings", "show_progress")),
     level |-> Setting(cfg, "logging", "level").s,
     log_file |-> Truthy(Setting(cfg, "logging", "file"))]

\* default_config
DefaultConfig == ConfigOf(default_config)

\* the parts of the state a call that is not running leaves at rest
AtRest ==
    /\ config = DefaultConfig
    /\ record_types_arg = NoTypes
    /\ quiet = FALSE
    /\ export_json = FALSE
    /\ export_csv = FALSE
    /\ record_types = <<>>
    /\ idx = 0
    /\ dns_record = EmptyDict
    /\ domain_exists = FALSE
    /\ ret = NoneRet
    /\ calls = <<>>
    /\ answers = <<>>
    /\ last_result = NoneResult
    /\ log = <<>>
    /\ displayed = FALSE
    /\ files = NoFiles
    /\ lookups = 0
    /\ prev = NoPrev
    /\ stdout = <<>>
    /\ exc = NoException
    /\ script = NoScript

\* a tool constructed without a configuration file
DefaultTool ==
    /\ config_file = MissingFile
    /\ loaded = default_config

lookupVars == <<config, record_types_arg, quiet, export_json, export_csv,
                record_types, idx, dns_record, domain_exists, ret, calls,
                answers, last_result, log, displayed, files, lookups, prev,
                stdout, exc, config_file, loaded, script>>

-----------------------------------------------------------------------------
(* validate_domain applied to an arbitrary string *)

InitValidate ==
    /\ AtRest
    /\ DefaultTool
    /\ domain_arg = <<>>
    /\ website \in ValidateInputs
    /\ valid = FALSE
    /\ pc = "validate"

ValidateCall ==
    /\ pc = "validate"
    /\ valid' = validate_domain(website)
    /\ pc' = "validated"
    /\ UNCHANGED <<domain_arg, website, lookupVars>>

SpecValidate == InitValidate /\ [][ValidateCall]_vars

(* clean_domain applied to an arbitrary string *)

InitClean ==
    /\ AtRest
    /\ DefaultTool
    /\ domain_arg \in CleanInputs
    /\ website = <<>>
    /\ valid = FALSE
    /\ pc = "clean"

CleanCall ==
    /\ pc = "clean"
    /\ website' = clean_domain(domain_arg)
    /\ pc' = "cleaned"
    /\ UNCHANGED <<domain_arg, valid, lookupVars>>

SpecClean == InitClean /\ [][CleanCall]_vars

(* clean_domain applied to its own result *)

CleanAgain ==
    /\ pc = "cleaned"
    /\ website' = clean_domain(website)
    /\ pc' = "recleaned"
    /\ UNCHANGED <<domain_arg, valid, lookupVars>>

SpecCleanTwice == InitClean /\ [][CleanCall \/ CleanAgain]_vars

-----------------------------------------------------------------------------
(* The resolver: dns.resolver.Resolver.resolve *)

MaxRecords == 2

HostNames == <<"mail.example.com", "ns1.example.com", "admin.example.com">>
Addresses == <<"192.168.1.1", "192.168.1.2", "192.168.1.3">>

HostName(i) == HostNames[((i - 1) % Len(HostNames)) + 1]

\* the i-th raw record of an answer of this type: the attributes the decoder reads
RawRecord(record_type, i) ==
    CASE record_type = "MX" ->
           [preference |-> 10 * i, exchange |-> [to_text |-> HostName(i)]]
      [] record_type = "SOA" ->
           [mname |-> [to_text |-> HostName(i + 1)],
            rname |-> [to_text |-> HostName(i + 2)],
            serial |-> 2023010100 + i, refresh |-> 3600 * i, retry |-> 1800 * i,
            expire |-> 604800 * i, minimum |-> 86400 * i]
      [] OTHER ->
           [to_text |-> Addresses[((i - 1) % Len(Addresses)) + 1]]

RawAnswers(record_type) ==
    {[i \in 1..n |-> RawRecord(record_type, i)] : n \in 1..MaxRecords}

Absent == [kind |-> "Absent", records |-> <<>>]    \* raises NXDOMAIN
NoData == [kind |-> "NoData", records |-> <<>>]    \* raises NoAnswer
Fault == [kind |-> "Fault", records |-> <<>>]      \* raises another Exception
Success(records) == [kind |-> "Success", records |-> records]

ResolverAnswers(record_type) ==
    {Absent, NoData, Fault} \cup {Success(rs) : rs \in RawAnswers(record_type)}

-----------------------------------------------------------------------------
(* fetch_record_type *)

\* a plausible slip: the SOA fields refresh and retry exchanged
DecodeRecord_swapped(record_type, r) ==
    CASE record_type = "MX" ->
           [priority |-> r.preference, exchange |-> r.exchange.to_text]
      [] record_type = "SOA" ->
           [mname |-> r.mname.to_text, rname |-> r.rname.to_text,
            serial |-> r.serial, refresh |-> r.retry, retry |-> r.refresh,
            expire |-> r.expire, minimum |-> r.minimum]
      [] OTHER -> Str(r.to_text)

\* what one raw record appends to record_list
DecodeRecord(record_type, r) ==
    CASE record_type = "MX" ->
           [priority |-> r.preference, exchange |-> r.exchange.to_text]
      [] record_type = "SOA" ->
           [mname |-> r.mname.to_text, rname |-> r.rname.to_text,
            serial |-> r.serial, refresh |-> r.refresh, retry |-> r.retry,
            expire |-> r.expire, minimum |-> r.minimum]
      [] OTHER -> Str(r.to_text)

\* a plausible slip: the generic except clause returning None like NXDOMAIN
fetch_record_type_faultfatal(record_type, answer) ==
    CASE answer.kind = "Success" ->
           ListResult([i \in 1..Len(answer.records) |->
                          DecodeRecord(record_type, answer.records[i])])
      [] answer.kind = "Absent" -> NoneResult
      [] answer.kind = "NoData" -> ListResult(<<>>)
      [] answer.kind = "Fault" -> NoneResult

\* the value fetch_record_type returns for what the resolver answered
fetch_record_type(record_type, answer) ==
    CASE answer.kind = "Success" ->
           ListResult([i \in 1..Len(answer.records) |->
                          DecodeRecord(record_type, answer.records[i])])
      [] answer.kind = "Absent" -> NoneResult
      [] answer.kind = "NoData" -> ListResult(<<>>)
      [] answer.kind = "Fault" -> ListResult(<<>>)

LogEntry(level, event, record_type) ==
    [level |-> level, event |-> event, record_type |-> record_type]

\* a plausible slip: the fault logged with logger.info
FetchLog_faultinfo(record_type, answer) ==
    CASE answer.kind = "Success" -> LogEntry("INFO", "Successfully fetched", record_type)
      [] answer.kind = "Absent" -> LogEntry("ERROR", "Domain does not exist", "")
      [] answer.kind = "NoData" -> LogEntry("INFO", "No records found", record_type)
      [] answer.kind = "Fault" -> LogEntry("INFO", "Error fetching", record_type)

\* the call fetch_record_type makes to self.logger
FetchLog(record_type, answer) ==
    CASE answer.kind = "Success" -> LogEntry("INFO", "Successfully fetched", record_type)
      [] answer.kind = "Absent" -> LogEntry("ERROR", "Domain does not exist", "")
      [] answer.kind = "NoData" -> LogEntry("INFO", "No records found", record_type)
      [] answer.kind = "Fault" -> LogEntry("ERROR", "Error fetching", record_type)

-----------------------------------------------------------------------------
(* export_to_json, export_to_csv *)

\* datetime.now().isoformat()
Now == "export time"

\* a plausible slip: the timestamp never added
JsonData_nostamp(d) == d

\* export_data: a copy of the result, with the timestamp when configured
JsonData(d) ==
    IF config.include_timestamp THEN DictSet(d, "export_timestamp", Now) ELSE d

CsvHeader ==
    IF config.include_timestamp
    THEN <<"Record Type", "Value", "Additional Info", "Export Time">>
    ELSE <<"Record Type", "Value", "Additional Info">>

\* f"Priority: {n}", f"Serial: {n}"
Labelled(label, n) == [label |-> label, n |-> n]

\* a plausible slip: the export time left off the data rows
CsvRow_notime(key, record) ==
    IF IsDict(record)
    THEN IF "exchange" \in DOMAIN record
         THEN <<key, record.exchange, Labelled("Priority: ", record.priority)>>
         ELSE <<key, record.mname, Labelled("Serial: ", record.serial)>>
    ELSE <<key, record.str, "">>

CsvRow(key, record) ==
    LET cells ==
            IF IsDict(record)
            THEN IF "exchange" \in DOMAIN record
                 THEN <<key, record.exchange, Labelled("Priority: ", record.priority)>>
                 ELSE IF "mname" \in DOMAIN record
                 THEN <<key, record.mname, Labelled("Serial: ", record.serial)>>
                 ELSE <<key, [repr |-> record], "">>
            ELSE <<key, record.str, "">>
    IN  IF config.include_timestamp THEN Append(cells, Now) ELSE cells

\* the data rows of the items i.. of the dict, in order
RECURSIVE CsvRowsFrom(_, _)
CsvRowsFrom(d, i) ==
    IF i > Len(d) THEN <<>>
    ELSE [j \in 1..Len(d[i][2]) |-> CsvRow(d[i][1], d[i][2][j])] \o CsvRowsFrom(d, i + 1)

CsvData(d) == <<CsvHeader>> \o CsvRowsFrom(d, 1)

\* the text json.dump writes, as its tokens (the layout between them left out)
Tok(c) == [tok |-> c]
TStr(text) == [tok |-> "str", v |-> text]
TNum(n) == [tok |-> "num", v |-> n]

\* the token lists from the i-th on, joined by commas
RECURSIVE JoinFrom(_, _)
JoinFrom(parts, i) ==
    IF i > Len(parts) THEN <<>>
    ELSE IF i = Len(parts) THEN parts[i]
    ELSE parts[i] \o <<Tok(",")>> \o JoinFrom(parts, i + 1)

\* the keys of a decoded MX or SOA record, in insertion order
FieldOrder(record) ==
    IF "exchange" \in DOMAIN record THEN <<"priority", "exchange">>
    ELSE <<"mname", "rname", "serial", "refresh", "retry", "expire", "minimum">>

\* the fields that hold an int
IsIntField(key) ==
    key \in {"priority", "serial", "refresh", "retry", "expire", "minimum"}

DumpRecord(record) ==
    LET order == FieldOrder(record)
    IN  <<Tok("{")>>
        \o JoinFrom([i \in 1..Len(order) |->
                        <<TStr(order[i]), Tok(":"),
                          IF IsIntField(order[i]) THEN TNum(record[order[i]])
                          ELSE TStr(record[order[i]])>>], 1)
        \o <<Tok("}")>>

DumpList(l) ==
    <<Tok("[")>>
    \o JoinFrom([i \in 1..Len(l) |->
                    IF IsDict(l[i]) THEN DumpRecord(l[i]) ELSE <<TStr(l[i].str)>>], 1)
    \o <<Tok("]")>>

\* json.dump(export_data, f): the lists of records, and the timestamp string
json_dump(d) ==
    <<Tok("{")>>
    \o JoinFrom([i \in 1..Len(d) |->
                    <<TStr(d[i][1]), Tok(":")>>
                    \o (IF d[i][1] = "export_timestamp" THEN <<TStr(d[i][2])>>
                        ELSE DumpList(d[i][2]))], 1)
    \o <<Tok("}")>>

\* a dict built from its items; the last value given to a key stands
PairsToRecord(pairs) ==
    [k \in {pairs[j][1] : j \in 1..Len(pairs)} |->
        pairs[CHOOSE j \in 1..Len(pairs) :
                 /\ pairs[j][1] = k
                 /\ \A m \in (j + 1)..Len(pairs) : pairs[m][1] # k][2]]

\* json.load, from inside an object of scalars at token i on
RECURSIVE ParseRecordFrom(_, _, _)
ParseRecordFrom(toks, i, acc) ==
    IF toks[i].tok = "}" THEN [v |-> PairsToRecord(acc), next |-> i + 1]
    ELSE IF toks[i].tok = "," THEN ParseRecordFrom(toks, i + 1, acc)
    ELSE ParseRecordFrom(toks, i + 3, Append(acc, <<toks[i].v, toks[i + 2].v>>))

\* json.load, from inside a list at token i on
RECURSIVE ParseListFrom(_, _, _)
ParseListFrom(toks, i, acc) ==
    IF toks[i].tok = "]" THEN [v |-> acc, next |-> i + 1]
    ELSE IF toks[i].tok = "," THEN ParseListFrom(toks, i + 1, acc)
    ELSE IF toks[i].tok = "{"
    THEN LET record == ParseRecordFrom(toks, i + 1, <<>>)
         IN  ParseListFrom(toks, record.next, Append(acc, record.v))
    ELSE ParseListFrom(toks, i + 1, Append(acc, Str(toks[i].v)))

\* json.load, from inside the top-level object at token i on
RECURSIVE ParseDictFrom(_, _, _)
ParseDictFrom(toks, i, acc) ==
    IF toks[i].tok = "}" THEN acc
    ELSE IF toks[i].tok = "," THEN ParseDictFrom(toks, i + 1, acc)
    ELSE IF toks[i + 2].tok = "["
    THEN LET l == ParseListFrom(toks, i + 3, <<>>)
         IN  ParseDictFrom(toks, l.next, DictSet(acc, toks[i].v, l.v))
    ELSE ParseDictFrom(toks, i + 3, DictSet(acc, toks[i].v, toks[i + 2].v))

\* json.load(f) of an exported file
json_load(toks) == ParseDictFrom(toks, 2, EmptyDict)

\* a plausible slip: no copy taken, so the timestamp lands in the result
MappingAfterJson_alias(d) ==
    IF config.include_timestamp THEN DictSet(d, "export_timestamp", Now) ELSE d

\* the mapping passed to export_to_json once the call is over: the timestamp
\* went to export_data, the copy
MappingAfterJson(d) == d

-----------------------------------------------------------------------------
(* get_dns_records and run_cli *)

MaxTypes == 2

\* one type decoded as text, and the two structured types
Types == {"A", "MX", "SOA"}

RECURSIVE ListsUpTo(_, _)
ListsUpTo(S, n) ==
    IF n = 0 THEN {<<>>}
    ELSE LET shorter == ListsUpTo(S, n - 1)
         IN  shorter \cup {Append(l, x) : l \in shorter, x \in S}

\* the record_types argument: None, or a list (--records allows repeats)
TypeArgs == ListsUpTo(Types, MaxTypes) \cup {NoTypes}

\* dns_settings.record_types as the configuration file may set it: a list,
\* or null
ConfigTypeLists == {<<>>, <<"MX", "A", "SOA">>, NoTypes}

\* a configuration file that sets these five keys
LookupFile(types, timestamp, progress, level, file) ==
    ParsedFile(JObj(
      << <<"dns_settings",
           JObj(<< <<"record_types",
                     IF types = NoTypes THEN JNull
                     ELSE JList([i \in 1..Len(types) |-> JStr(types[i])])>> >>)>>,
         <<"display_settings", JObj(<< <<"show_progress", JBool(progress)>> >>)>>,
         <<"export_settings", JObj(<< <<"include_timestamp", JBool(timestamp)>> >>)>>,
         <<"logging",
           JObj(<< <<"level", JStr(level)>>,
                   <<"file", IF file THEN JStr("dns_lookup.log") ELSE JNull>> >>)>> >>))

\* the files run_cli is run under: the lists and the timestamp setting vary
LookupFiles ==
    {LookupFile(l, b, TRUE, "INFO", TRUE) : l \in ConfigTypeLists, b \in BOOLEAN}

Configs == {ConfigOf(load_config(f).config) : f \in LookupFiles}

\* raw domains: absent, empty, one that cleans to a hostname, one that does not
RawDomains ==
    { None,
      <<>>,
      <<" ">> \o HTTPS \o WWW \o <<"a", ".", "b", "/", "p">>,
      <<"a", ".", ".", "b">> }

\* a plausible slip: the validation result ignored
RejectsDomain_never(w) == FALSE

\* "if not self.validate_domain(website)"
RejectsDomain(w) == ~validate_domain(w)

\* a plausible slip: the None check dropped, so None falls to the else branch
IsAbsentResult_ignored(result) == FALSE

\* "if result is None"
IsAbsentResult(result) == result.isNone

\* print(...) of a diagnostic message
PrintEntry(event, record_type) == [event |-> event, record_type |-> record_type]

\* the messages fetch_record_type prints
FetchOut(record_type, answer) ==
    (IF ~quiet /\ config.show_progress
     THEN <<PrintEntry("Fetching", record_type)>> ELSE <<>>)
    \o CASE answer.kind = "Success" ->
             IF ~quiet /\ config.show_progress
             THEN <<PrintEntry("Found", record_type)>> ELSE <<>>
          [] answer.kind = "Absent" ->
             IF ~quiet THEN <<PrintEntry("Domain does not exist", "")>> ELSE <<>>
          [] answer.kind = "NoData" ->
             IF ~quiet /\ config.show_progress
             THEN <<PrintEntry("No records found", record_type)>> ELSE <<>>
          [] answer.kind = "Fault" ->
             IF ~quiet THEN <<PrintEntry("Error fetching", record_type)>> ELSE <<>>

\* "for record_type in record_types" raises TypeError on None
NotIterable(t) == t = NoTypes

\* a plausible slip: a handler for the resolver's exceptions only
RunCliCatches_dnsonly(e) == e = "DNSException"

\* "except Exception" in run_cli: every exception class modelled derives
\* from Exception
RunCliCatches(e) == e \in {"TypeError", "OSError", "DNSException"}

Init ==
    /\ config_file \in LookupFiles
    /\ loaded = load_config(config_file).config
    /\ config = ConfigOf(loaded)
    /\ domain_arg \in RawDomains
    /\ record_types_arg \in TypeArgs
    /\ quiet \in BOOLEAN
    /\ export_json \in BOOLEAN
    /\ export_csv \in BOOLEAN
    /\ pc = "call"
    /\ website = <<>>
    /\ valid = FALSE
    /\ record_types = <<>>
    /\ idx = 0
    /\ dns_record = EmptyDict
    /\ domain_exists = FALSE
    /\ ret = NoneRet
    /\ calls = <<>>
    /\ answers = <<>>
    /\ last_result = NoneResult
    /\ log = <<>>
    /\ displayed = FALSE
    /\ files = NoFiles
    /\ lookups = 1
    /\ prev = NoPrev
    /\ stdout = <<>>
    /\ exc = NoException
    /\ script = NoScript

\* get_dns_records up to the for loop: clean, validate, default the types
GetDnsRecordsEnter ==
    /\ pc = "call"
    /\ website' = clean_domain(domain_arg)
    /\ valid' = validate_domain(website')
    /\ IF RejectsDomain(website')
       THEN /\ stdout' = IF quiet THEN stdout
                         ELSE Append(stdout, PrintEntry("Invalid domain format", ""))
            /\ log' = Append(log, LogEntry("ERROR", "Invalid domain format", ""))
            /\ ret' = NoneRet
            /\ pc' = "returned"
            /\ UNCHANGED <<record_types, idx, dns_record, domain_exists, exc>>
       ELSE /\ stdout' = IF quiet THEN stdout
                         ELSE Append(stdout, PrintEntry("Querying DNS records", ""))
            /\ record_types' = IF NotRecordTypes(record_types_arg)
                               THEN config.record_types
                               ELSE record_types_arg
            /\ dns_record' = EmptyDict
            /\ domain_exists' = FALSE
            /\ IF NotIterable(record_types')
               THEN /\ exc' = "TypeError"
                    /\ pc' = "raised"
                    /\ UNCHANGED idx
               ELSE /\ idx' = 1
                    /\ pc' = "loop"
                    /\ UNCHANGED exc
            /\ UNCHANGED <<log, ret>>
    /\ UNCHANGED <<config, domain_arg, record_types_arg, quiet, export_json,
                   export_csv, calls, answers, last_result, displayed, files,
                   lookups, prev, config_file, loaded, script>>

\* one iteration of the for loop, the fetch_record_type call included
FetchRecordType ==
    /\ pc = "loop"
    /\ idx <= Len(record_types)
    /\ \E answer \in ResolverAnswers(record_types[idx]) :
         LET record_type == record_types[idx]
             result == fetch_record_type(record_type, answer)
         IN  /\ calls' = Append(calls, <<website, record_type>>)
             /\ answers' = Append(answers, answer)
             /\ last_result' = result
             /\ stdout' = stdout \o FetchOut(record_type, answer)
             /\ log' = Append(log, FetchLog(record_type, answer))
             /\ IF IsAbsentResult(result)
                THEN /\ ret' = NoneRet
                     /\ pc' = "returned"
                     /\ UNCHANGED <<idx, dns_record, domain_exists>>
                ELSE IF result.list # <<>>
                THEN /\ domain_exists' = TRUE
                     /\ dns_record' = DictSet(dns_record, RecordsKey(record_type), result.list)
                     /\ idx' = idx + 1
                     /\ UNCHANGED <<ret, pc>>
                ELSE /\ dns_record' = DictSet(dns_record, RecordsKey(record_type), <<>>)
                     /\ idx' = idx + 1
                     /\ UNCHANGED <<ret, pc, domain_exists>>
    /\ UNCHANGED <<config, domain_arg, record_types_arg, quiet, export_json,
                   export_csv, website, valid, record_types, displayed, files,
                   lookups, prev, exc, config_file, loaded, script>>

\* the loop is over: log the completion and return the dict
GetDnsRecordsReturn ==
    /\ pc = "loop"
    /\ idx > Len(record_types)
    /\ stdout' = IF ~domain_exists /\ ~quiet
                 THEN Append(stdout, PrintEntry("no standard DNS records", ""))
                 ELSE stdout
    /\ log' = Append(log, LogEntry("INFO", "DNS lookup completed", ""))
    /\ ret' = DictRet(dns_record)
    /\ pc' = "returned"
    /\ UNCHANGED <<config, domain_arg, record_types_arg, quiet, export_json,
                   export_csv, website, valid, record_types, idx, dns_record,
                   domain_exists, calls, answers, last_result, displayed, files,
                   lookups, prev, exc, config_file, loaded, script>>

\* run_cli: "if not dns_record: return"
RunCliReturnEarly ==
    /\ pc = "returned"
    /\ NotDnsRecord(ret)
    /\ pc' = "done"
    /\ UNCHANGED <<config, domain_arg, record_types_arg, quiet, export_json,
                   export_csv, website, valid, record_types, idx, dns_record,
                   domain_exists, ret, calls, answers, last_result, log,
                   displayed, files, lookups, prev, stdout, exc, config_file,
                   loaded, script>>

\* run_cli: display the result unless quiet
RunCliDisplay ==
    /\ pc = "returned"
    /\ ~NotDnsRecord(ret)
    /\ displayed' = ~quiet
    /\ pc' = "export_json"
    /\ UNCHANGED <<config, domain_arg, record_types_arg, quiet, export_json,
                   export_csv, website, valid, record_types, idx, dns_record,
                   domain_exists, ret, calls, answers, last_result, log, files,
                   lookups, prev, stdout, exc, config_file, loaded, script>>

\* run_cli: export_to_json when a file was asked for; the write may fail, and
\* the except clause of export_to_json then reports it
RunCliExportJson ==
    /\ pc = "export_json"
    /\ IF export_json
       THEN /\ ret' = DictRet(MappingAfterJson(ret.dict))
            /\ \E ok \in BOOLEAN :
                 IF ok
                 THEN /\ files' = [files EXCEPT !.json =
                                      [written |-> TRUE,
                                       data |-> json_dump(JsonData(ret.dict))]]
                      /\ stdout' = Append(stdout, PrintEntry("exported to JSON", ""))
                      /\ log' = Append(log, LogEntry("INFO", "exported to JSON", ""))
                 ELSE /\ stdout' = Append(stdout, PrintEntry("Error exporting to JSON", ""))
                      /\ log' = Append(log, LogEntry("ERROR", "Error exporting to JSON", ""))
                      /\ UNCHANGED files
       ELSE UNCHANGED <<ret, files, stdout, log>>
    /\ pc' = "export_csv"
    /\ UNCHANGED <<config, domain_arg, record_types_arg, quiet, export_json,
                   export_csv, website, valid, record_types, idx, dns_record,
                   domain_exists, calls, answers, last_result, displayed,
                   lookups, prev, exc, config_file, loaded, script>>

\* run_cli: export_to_csv when a file was asked for; the write may fail, and
\* the except clause of export_to_csv then reports it
RunCliExportCsv ==
    /\ pc = "export_csv"
    /\ IF export_csv
       THEN \E ok \in BOOLEAN :
              IF ok
              THEN /\ files' = [files EXCEPT !.csv =
                                   [written |-> TRUE, data |-> CsvData(ret.dict)]]
                   /\ stdout' = Append(stdout, PrintEntry("exported to CSV", ""))
                   /\ log' = Append(log, LogEntry("INFO", "exported to CSV", ""))
              ELSE /\ stdout' = Append(stdout, PrintEntry("Error exporting to CSV", ""))
                   /\ log' = Append(log, LogEntry("ERROR", "Error exporting to CSV", ""))
                   /\ UNCHANGED files
       ELSE UNCHANGED <<files, stdout, log>>
    /\ pc' = "done"
    /\ UNCHANGED <<config, domain_arg, record_types_arg, quiet, export_json,
                   export_csv, website, valid, record_types, idx, dns_record,
                   domain_exists, ret, calls, answers, last_result, displayed,
                   lookups, prev, exc, config_file, loaded, script>>

\* run_cli: an exception raised under its try reaches "except Exception",
\* which reports it; one the clause does not match leaves run_cli
RunCliExcept ==
    /\ pc = "raised"
    /\ IF RunCliCatches(exc)
       THEN /\ stdout' = Append(stdout, PrintEntry("Unexpected error", ""))
            /\ log' = Append(log, LogEntry("ERROR", "Unexpected error", ""))
            /\ pc' = "done"
       ELSE /\ pc' = "crashed"
            /\ UNCHANGED <<stdout, log>>
    /\ UNCHANGED <<exc, config, domain_arg, record_types_arg, quiet, export_json,
                   export_csv, website, valid, record_types, idx, dns_record,
                   domain_exists, ret, calls, answers, last_result, displayed,
                   files, lookups, prev, config_file, loaded, script>>

\* the error the lookup logged when it gave up
FailureOf(entries) ==
    IF entries # <<>> /\ entries[Len(entries)].level = "ERROR"
           /\ entries[Len(entries)].event \in {"Invalid domain format",
                                               "Domain does not exist"}
    THEN entries[Len(entries)].event
    ELSE ""

Next ==
    \/ GetDnsRecordsEnter
    \/ FetchRecordType
    \/ GetDnsRecordsReturn
    \/ RunCliReturnEarly
    \/ RunCliDisplay
    \/ RunCliExportJson
    \/ RunCliExportCsv
    \/ RunCliExcept

\* one run_cli call on a freshly constructed tool
Spec == Init /\ [][Next]_vars

-----------------------------------------------------------------------------
(* demo_basic_lookup: one tool, get_dns_records(domain, quiet=True) for one
   domain after the other *)

MaxLookups == 2

InitBatch ==
    /\ Init
    /\ record_types_arg = NoTypes
    /\ quiet = TRUE
    /\ export_json = FALSE
    /\ export_csv = FALSE

\* the loop body after the call ("if dns_records: ... else: ...") and the next
\* iteration's call; the caller has kept what the finished lookup returned
DemoNextDomain ==
    /\ pc = "returned"
    /\ lookups < MaxLookups
    /\ prev' = [seen |-> TRUE, isNone |-> ret.isNone,
                failure |-> IF ret.isNone THEN FailureOf(log) ELSE ""]
    /\ lookups' = lookups + 1
    /\ domain_arg' \in RawDomains
    /\ pc' = "call"
    /\ website' = <<>>
    /\ valid' = FALSE
    /\ record_types' = <<>>
    /\ idx' = 0
    /\ dns_record' = EmptyDict
    /\ domain_exists' = FALSE
    /\ ret' = NoneRet
    /\ calls' = <<>>
    /\ answers' = <<>>
    /\ last_result' = NoneResult
    /\ log' = <<>>
    /\ stdout' = Append(stdout, PrintEntry(IF NotDnsRecord(ret) THEN "Failed to lookup"
                                            ELSE "Found total DNS records", ""))
    /\ UNCHANGED <<config, record_types_arg, quiet, export_json, export_csv,
                   displayed, files, exc, config_file, loaded, script>>

\* an exception get_dns_records raises leaves demo_basic_lookup: the loop is
\* abandoned, and main reports "Demo error"
DemoAbort ==
    /\ pc = "raised"
    /\ pc' = "aborted"
    /\ stdout' = Append(stdout, PrintEntry("Demo error", ""))
    /\ UNCHANGED <<config, domain_arg, record_types_arg, quiet, export_json,
                   export_csv, website, valid, record_types, idx, dns_record,
                   domain_exists, ret, calls, answers, last_result, log,
                   displayed, files, lookups, prev, exc, config_file, loaded, script>>

NextBatch ==
    \/ GetDnsRecordsEnter
    \/ FetchRecordType
    \/ GetDnsRecordsReturn
    \/ DemoNextDomain
    \/ DemoAbort

SpecBatch == InitBatch /\ [][NextBatch]_vars

-----------------------------------------------------------------------------
(* The logger, and run_cli under the logging and display settings a
   configuration file may give *)

\* logging.DEBUG .. logging.CRITICAL
LevelNo(name) ==
    CASE name = "NOTSET" -> 0
      [] name = "DEBUG" -> 10
      [] name = "INFO" -> 20
      [] name \in {"WARNING", "WARN"} -> 30
      [] name = "ERROR" -> 40
      [] name \in {"CRITICAL", "FATAL"} -> 50

\* logger.getEffectiveLevel(): a logger left at NOTSET takes the root
\* logger's level, WARNING
EffectiveLevel == IF config.level = "NOTSET" THEN LevelNo("WARNING") ELSE LevelNo(config.level)

\* the record is written: it passes the logger's level and then reaches the
\* file handler, or without one logging.lastResort, which writes WARNING and
\* above to stderr
IsEmitted(entry) ==
    /\ LevelNo(entry.level) >= EffectiveLevel
    /\ config.log_file \/ LevelNo(entry.level) >= LevelNo("WARNING")

\* what the calls to self.logger leave in the log file or on stderr
Emitted(entries) == SelectSeq(entries, IsEmitted)

DiagLevels == {"NOTSET", "INFO", "WARNING", "ERROR", "CRITICAL"}

\* the files of the diagnostics runs: the level, the log file and
\* show_progress vary, record_types is null
DiagFiles ==
    {LookupFile(NoTypes, TRUE, progress, level, file) :
        progress \in BOOLEAN, level \in DiagLevels, file \in BOOLEAN}

InitDiag ==
    /\ config_file \in DiagFiles
    /\ loaded = load_config(config_file).config
    /\ config = ConfigOf(loaded)
    /\ domain_arg = <<" ">> \o HTTPS \o WWW \o <<"a", ".", "b", "/", "p">>
    /\ record_types_arg \in TypeArgs
    /\ quiet \in BOOLEAN
    /\ export_json = FALSE
    /\ export_csv = FALSE
    /\ pc = "call"
    /\ website = <<>>
    /\ valid = FALSE
    /\ record_types = <<>>
    /\ idx = 0
    /\ dns_record = EmptyDict
    /\ domain_exists = FALSE
    /\ ret = NoneRet
    /\ calls = <<>>
    /\ answers = <<>>
    /\ last_result = NoneResult
    /\ log = <<>>
    /\ displayed = FALSE
    /\ files = NoFiles
    /\ lookups = 1
    /\ prev = NoPrev
    /\ stdout = <<>>
    /\ exc = NoException
    /\ script = NoScript

SpecDiag == InitDiag /\ [][Next]_vars

-----------------------------------------------------------------------------
(* DNSLookupTool(config_file): load_config, setup_logging, the resolver *)

MaxFileSections == 2

\* the sections a file may give: three the defaults know, one they do not
FileSections == <<"dns_settings", "logging", "export_settings", "custom">>

\* every key of a default section, as a list of strings
KeyList(section) ==
    JList([k \in 1..Len(DefaultSection(section)) |-> JStr(DefaultSection(section)[k][1])])

\* what a file may give for a section: objects with some keys, with unknown
\* keys, with values of the wrong type, and values that are not objects
SectionValues(section) ==
    CASE section = "dns_settings" ->
           { JObj(<<>>),
             JObj(<< <<"timeout", JNum("5")>> >>),
             JObj(<< <<"record_types", JList(<<JStr("A")>>)>>, <<"extra", JNum("1")>> >>),
             JNull, JStr("x"), JList(<<>>), KeyList("dns_settings") }
      [] section = "logging" ->
           { JObj(<< <<"level", JStr("DEBUG")>> >>),
             JObj(<< <<"level", JStr("BOGUS")>> >>),
             JObj(<< <<"level", JNum("5")>> >>),
             JObj(<< <<"file", JNull>> >>),
             JObj(<< <<"file", JNum("5")>> >>),
             KeyList("logging") }
      [] section = "export_settings" ->
           { JObj(<< <<"include_timestamp", JBool(FALSE)>> >>) }
      [] section = "custom" ->
           { JObj(<< <<"a", JNum("1")>> >>) }

\* the items of the objects that give at most n of the sections i..
RECURSIVE ObjectsFrom(_, _)
ObjectsFrom(i, n) ==
    IF i > Len(FileSections) \/ n = 0 THEN {<<>>}
    ELSE ObjectsFrom(i + 1, n)
         \cup {<< <<FileSections[i], value>> >> \o rest :
                  value \in SectionValues(FileSections[i]),
                  rest \in ObjectsFrom(i + 1, n - 1)}

ConfigFiles ==
    {MissingFile, UnreadableFile}
    \cup {ParsedFile(value) :
             value \in {JNull, JNum("5"), JStr("logging"), JList(<<>>),
                        JList([i \in 1..Len(SectionNames) |-> JStr(SectionNames[i])])}}
    \cup {ParsedFile(JObj(items)) : items \in ObjectsFrom(1, MaxFileSections)}

InitConfig ==
    /\ AtRest
    /\ config_file \in ConfigFiles
    /\ loaded = JNull
    /\ domain_arg = <<>>
    /\ website = <<>>
    /\ valid = FALSE
    /\ pc = "construct"

\* self.config = self.load_config(config_file)
LoadConfig ==
    /\ pc = "construct"
    /\ loaded' = load_config(config_file).config
    /\ stdout' = IF load_config(config_file).warned
                 THEN Append(stdout, PrintEntry("Warning: Could not load", ""))
                 ELSE stdout
    /\ pc' = "setup_logging"
    /\ UNCHANGED <<config, domain_arg, record_types_arg, quiet, export_json,
                   export_csv, website, valid, record_types, idx, dns_record,
                   domain_exists, ret, calls, answers, last_result, log,
                   displayed, files, lookups, prev, exc, config_file, script>>

\* self.logger = self.setup_logging(); an exception leaves the constructor
SetupLogging ==
    /\ pc = "setup_logging"
    /\ exc' = setup_logging(loaded)
    /\ pc' = IF exc' = NoException THEN "resolver" ELSE "crashed"
    /\ UNCHANGED <<config, domain_arg, record_types_arg, quiet, export_json,
                   export_csv, website, valid, record_types, idx, dns_record,
                   domain_exists, ret, calls, answers, last_result, log,
                   displayed, files, lookups, prev, stdout, config_file, loaded, script>>

\* the rest of __init__; the tool then reads its settings from self.config
InitResolver ==
    /\ pc = "resolver"
    /\ exc' = ConfigureResolver(loaded)
    /\ IF exc' = NoException
       THEN /\ config' = ConfigOf(loaded)
            /\ pc' = "constructed"
       ELSE /\ pc' = "crashed"
            /\ UNCHANGED config
    /\ UNCHANGED <<domain_arg, record_types_arg, quiet, export_json,
                   export_csv, website, valid, record_types, idx, dns_record,
                   domain_exists, ret, calls, answers, last_result, log,
                   displayed, files, lookups, prev, stdout, config_file, loaded, script>>

NextConfig ==
    \/ LoadConfig
    \/ SetupLogging
    \/ InitResolver

SpecConfig == InitConfig /\ [][NextConfig]_vars

-----------------------------------------------------------------------------
(* The hostname grammar, stated on the characters *)

IsLabelStart(s, i) == i = 1 \/ s[i - 1] = "."
IsLabelEnd(s, i) == i = Len(s) \/ s[i + 1] = "."

\* one or more dot-separated labels of 1 to 63 alphanumeric-or-hyphen
\* characters that neither start nor end with a hyphen, at most 253 in all
Hostname(s) ==
    /\ s # None
    /\ Len(s) >= 1
    /\ Len(s) <= 253
    /\ \A i \in 1..Len(s) : s[i] \in Alnum \cup {"-", "."}
    /\ \A i \in 1..Len(s) :
          (IsLabelStart(s, i) \/ IsLabelEnd(s, i)) => s[i] \in Alnum
    /\ \A i \in 1..(Len(s) - 63) : \E k \in i..(i + 63) : s[k] = "."

\* the rejections the claim lists
MustReject(s) ==
    \/ Falsy(s)
    \/ Len(s) > 253
    \/ s[1] = "." \/ s[Len(s)] = "."
    \/ \E i \in 1..(Len(s) - 1) : s[i] = "." /\ s[i + 1] = "."
    \/ \E i \in 1..(Len(s) - 63) : \A k \in i..(i + 63) : s[k] # "."
    \/ \E i \in 1..Len(s) :
          (IsLabelStart(s, i) \/ IsLabelEnd(s, i)) /\ s[i] \notin Alnum \cup {"."}

\* C8: every string validate_domain accepts is a hostname of the grammar, and
\* every string with one of the listed defects is rejected.
C8_AcceptedOnlyHostnames ==
    pc = "validated" =>
        /\ valid => Hostname(website)
        /\ MustReject(website) => ~valid

\* C9: validate_domain accepts every string of the hostname grammar.
C9_HostnamesAccepted ==
    pc = "validated" /\ Hostname(website) => valid

\* a hostname of exactly 253 characters with a 63-character label, accepted
C9_Witness ==
    /\ pc = "validated"
    /\ valid
    /\ Hostname(website)
    /\ Len(website) = 253
    /\ \A i \in 1..63 : website[i] # "."
    /\ website[64] = "."
-----------------------------------------------------------------------------
(* The shape [whitespace][http:// or https://][www.]HOST[/PATH] *)

HasPrefix(s, p) == OccursAt(s, p, 1)

Drop(s, n) == SubSeq(s, n + 1, Len(s))

\* x without its surrounding whitespace, its scheme prefix and its www. prefix
AfterPrefixes(x) ==
    LET t == Strip(x)
        u == IF HasPrefix(t, HTTP) THEN Drop(t, Len(HTTP))
             ELSE IF HasPrefix(t, HTTPS) THEN Drop(t, Len(HTTPS))
             ELSE t
    IN  IF HasPrefix(u, WWW) THEN Drop(u, Len(WWW)) ELSE u

\* HOST: what stands before the first '/' once the prefixes are taken off
HostOf(x) == BeforeSlash(AfterPrefixes(x))

\* HOST contains no 'www.' and no whitespace (it holds no '/' by construction)
HasHostShape(x) ==
    /\ ~Contains(HostOf(x), WWW)
    /\ \A i \in 1..Len(HostOf(x)) : HostOf(x)[i] \notin Whitespace

\* C10: clean_domain returns empty or absent input unchanged, returns exactly
\* HOST for an input of the shape above, and never returns a string with '/'.
C10_CleanReturnsHost ==
    pc = "cleaned" =>
        /\ Falsy(domain_arg) => website = domain_arg
        /\ (~Falsy(domain_arg) /\ HasHostShape(domain_arg)) =>
               website = HostOf(domain_arg)
        /\ website # None => \A i \in 1..Len(website) : website[i] # "/"

\* s without the scheme it starts with, if it starts with one
WithoutSchemePrefix(s) ==
    IF HasPrefix(s, HTTP) THEN Drop(s, Len(HTTP))
    ELSE IF HasPrefix(s, HTTPS) THEN Drop(s, Len(HTTPS))
    ELSE s

\* position i of s lies inside an occurrence of old
Covered(s, old, i) ==
    \E j \in 1..i : j + Len(old) > i /\ OccursAt(s, old, j)

\* the characters of s from position i on that lie in no occurrence of old
RECURSIVE UncoveredFrom(_, _, _)
UncoveredFrom(s, old, i) ==
    IF i > Len(s) THEN <<>>
    ELSE (IF Covered(s, old, i) THEN <<>> ELSE <<s[i]>>)
         \o UncoveredFrom(s, old, i + 1)

\* s with every occurrence of 'www.' taken out (two occurrences of 'www.'
\* cannot overlap)
WithoutEveryWww(s) == UncoveredFrom(s, WWW, 1)

\* s with its first occurrence of 'www.' taken out
WithoutFirstWww(s) ==
    LET at == {i \in 1..Len(s) : OccursAt(s, WWW, i)}
    IN  IF at = {} THEN s
        ELSE LET i == CHOOSE i \in at : \A k \in at : i <= k
             IN  SubSeq(s, 1, i - 1) \o Drop(s, i + Len(WWW) - 1)

\* C11: clean_domain removes 'http://' or 'https://' only where it starts the
\* trimmed input, and only once: a scheme elsewhere in the string, or a second
\* one, is still there when 'www.' is removed and the path is cut off.
C11_SchemeOnlyAsPrefix ==
    (pc = "cleaned" /\ ~Falsy(domain_arg)) =>
        website = BeforeSlash(WithoutEveryWww(WithoutSchemePrefix(Strip(domain_arg))))

\* the trimmed input once the code has removed the schemes
SchemesRemoved(x) == RemoveAll(RemoveAll(Strip(x), HTTP), HTTPS)

\* C12 (as stated): clean_domain removes exactly the first occurrence of
\* 'www.' and leaves every further occurrence in place.
C12_FirstWwwOnly ==
    (pc = "cleaned" /\ ~Falsy(domain_arg)) =>
        website = BeforeSlash(WithoutFirstWww(SchemesRemoved(domain_arg)))

\* C12 (amended): clean_domain removes every occurrence of 'www.' found in
\* the string that is left once the schemes are removed, wherever it appears.
C12_EveryWwwRemoved ==
    (pc = "cleaned" /\ ~Falsy(domain_arg)) =>
        website = BeforeSlash(WithoutEveryWww(SchemesRemoved(domain_arg)))

\* 'www.www.a' has been cleaned to 'a'
C12_Witness ==
    /\ pc = "cleaned"
    /\ domain_arg = WWW \o WWW \o <<"a">>
    /\ website = <<"a">>

\* x has no scheme prefix, no 'www.' and no path segment
AlreadyClean(x) ==
    /\ x # None
    /\ ~HasPrefix(Strip(x), HTTP)
    /\ ~HasPrefix(Strip(x), HTTPS)
    /\ ~Contains(x, WWW)
    /\ \A i \in 1..Len(x) : x[i] # "/"

\* C13: on an input with no scheme prefix, no 'www.' and no path segment,
\* cleaning the cleaned value again leaves it as it is.
C13_CleanIdempotent ==
    [][(pc = "cleaned" /\ AlreadyClean(domain_arg)) => website' = website]_vars

\* an input of that kind that the first cleaning changed has been cleaned twice
C13_Witness ==
    /\ pc = "recleaned"
    /\ AlreadyClean(domain_arg)
    /\ website # domain_arg
    /\ website # <<>>
-----------------------------------------------------------------------------
(* The lookup *)

\* get_dns_records has returned
Returned ==
    /\ pc \in {"returned", "export_json", "export_csv", "done"}
    /\ exc = NoException

NoAbsent == \A k \in 1..Len(answers) : answers[k].kind # "Absent"

\* position k is the last one at which its type was requested
LastOfType(k) ==
    \A m \in (k + 1)..Len(record_types) : record_types[m] # record_types[k]

\* C1: once the resolver reports Absent for the type at position k, no resolve
\* call is issued for a later position and the lookup returns None.
C1_AbsentStopsLookup ==
    \A k \in 1..Len(answers) :
        answers[k].kind = "Absent" =>
            /\ Len(calls) = k
            /\ Returned
            /\ ret.isNone

\* Absent on the second of three requested types: the third is never queried
C1_Witness ==
    /\ pc = "done"
    /\ Len(record_types) = 3
    /\ Len(calls) = 2
    /\ answers[1].kind = "Success"
    /\ answers[2].kind = "Absent"
    /\ ret.isNone

\* C2: when the cleaned domain fails validate_domain the lookup logs the
\* invalid domain, returns None and issues no resolve call.
C2_InvalidDomainNoResolve ==
    (pc # "call" /\ ~valid) =>
        /\ calls = <<>>
        /\ Returned
        /\ ret.isNone
        /\ log = <<LogEntry("ERROR", "Invalid domain format", "")>>

C2_Witness ==
    /\ pc = "done"
    /\ ~valid
    /\ website = <<"a", ".", ".", "b">>
    /\ Len(record_types_arg) = 2
    /\ record_types_arg # NoTypes
    /\ calls = <<>>

\* C3: a NoData or a Fault answer stores an empty list under the type's key
\* and the loop goes on: every later type is queried, and a lookup without an
\* Absent answer queries every requested type and returns a mapping.
C3_NoDataFaultContinue ==
    /\ \A k \in 1..Len(answers) :
          answers[k].kind \in {"NoData", "Fault"} =>
              /\ idx > k
              /\ (k = Len(answers) =>
                     /\ last_result = ListResult(<<>>)
                     /\ HasKey(dns_record, RecordsKey(record_types[k]))
                     /\ DictGet(dns_record, RecordsKey(record_types[k])) = <<>>)
    /\ (Returned /\ valid /\ NoAbsent) =>
          /\ ~ret.isNone
          /\ Len(calls) = Len(record_types)
          /\ \A k \in 1..Len(calls) : calls[k] = <<website, record_types[k]>>

C3_Witness ==
    /\ pc = "done"
    /\ Len(answers) = 3
    /\ answers[1].kind = "Fault"
    /\ answers[2].kind = "NoData"
    /\ answers[3].kind = "Success"
    /\ ~ret.isNone

\* C4: a lookup that returns a mapping is Found (domain_exists) exactly when
\* some list of the mapping is non-empty; when every type answers NoData it is
\* FoundEmpty and every requested type maps to an empty list.
C4_FoundIffNonEmptyList ==
    (Returned /\ ~ret.isNone) =>
        /\ domain_exists <=> \E i \in 1..Len(ret.dict) : ret.dict[i][2] # <<>>
        /\ (\A k \in 1..Len(answers) : answers[k].kind = "NoData") =>
              /\ ~domain_exists
              /\ \A k \in 1..Len(record_types) :
                    /\ HasKey(ret.dict, RecordsKey(record_types[k]))
                    /\ DictGet(ret.dict, RecordsKey(record_types[k])) = <<>>

LoggedAny(events) == \E i \in 1..Len(log) : log[i].event \in events

JsonAttempted == LoggedAny({"exported to JSON", "Error exporting to JSON"})
CsvAttempted == LoggedAny({"exported to CSV", "Error exporting to CSV"})

\* C5: run_cli goes on to display and export after a FoundEmpty lookup, and
\* does neither after a lookup that returned None.
C5_FoundEmptyIsSuccess ==
    pc = "done" =>
        /\ (~ret.isNone /\ ~domain_exists) =>
              /\ ~quiet => displayed
              /\ export_json => JsonAttempted
              /\ export_csv => CsvAttempted
        /\ ret.isNone =>
              /\ ~displayed
              /\ ~JsonAttempted
              /\ ~CsvAttempted
              /\ files = NoFiles

\* C6: the returned value tells the failure: two lookups that return the same
\* value have failed the same way.
C6_ReturnTellsFailure ==
    (pc = "returned" /\ prev.seen /\ prev.isNone /\ ret.isNone) =>
        FailureOf(log) = prev.failure

\* C7: a Success answer is decoded record by record, in order, by its type;
\* the decoded list of the last answer for a type is what the mapping holds,
\* and the lookup is then Found.
C7_DecodedByType ==
    /\ (answers # <<>> /\ answers[Len(answers)].kind = "Success") =>
          LET t == record_types[Len(answers)]
              raw == answers[Len(answers)].records
              out == last_result.list
          IN  /\ ~last_result.isNone
              /\ Len(out) = Len(raw)
              /\ \A i \in 1..Len(raw) :
                    CASE t = "MX" ->
                           out[i] = [priority |-> raw[i].preference,
                                     exchange |-> raw[i].exchange.to_text]
                      [] t = "SOA" ->
                           out[i] = [mname |-> raw[i].mname.to_text,
                                     rname |-> raw[i].rname.to_text,
                                     serial |-> raw[i].serial,
                                     refresh |-> raw[i].refresh,
                                     retry |-> raw[i].retry,
                                     expire |-> raw[i].expire,
                                     minimum |-> raw[i].minimum]
                      [] OTHER -> out[i] = Str(raw[i].to_text)
              /\ (pc = "loop" =>
                     DictGet(dns_record, RecordsKey(t)) = out)
    /\ (Returned /\ ~ret.isNone) =>
          \A k \in 1..Len(answers) :
              (answers[k].kind = "Success" /\ LastOfType(k)) =>
                  /\ Len(DictGet(ret.dict, RecordsKey(record_types[k])))
                        = Len(answers[k].records)
                  /\ domain_exists
    /\ (/\ Returned
        /\ ~ret.isNone
        /\ \E k \in 1..Len(answers) :
              /\ record_types[k] = "MX"
              /\ LastOfType(k)
              /\ answers[k].kind = "Success"
              /\ Len(answers[k].records) = 1
              /\ answers[k].records[1].preference = 10
              /\ answers[k].records[1].exchange.to_text = "mail.example.com"
              /\ \A m \in 1..Len(answers) : m # k => answers[m].kind = "NoData")
       => /\ DictGet(ret.dict, "MX_Records")
                = <<[priority |-> 10, exchange |-> "mail.example.com"]>>
          /\ \A i \in 1..Len(ret.dict) :
                ret.dict[i][1] # "MX_Records" => ret.dict[i][2] = <<>>
          /\ domain_exists

\* the MX answer [(10, mail.example.com)] with no other type populated
C7_Witness ==
    /\ pc = "done"
    /\ record_types = <<"MX", "A", "SOA">>
    /\ answers = <<Success(<<RawRecord("MX", 1)>>), NoData, NoData>>
    /\ ret = DictRet(<< <<"MX_Records",
                          <<[priority |-> 10, exchange |-> "mail.example.com"]>> >>,
                        <<"A_Records", <<>> >>,
                        <<"SOA_Records", <<>> >> >>)
    /\ domain_exists

-----------------------------------------------------------------------------
(* The constructor *)

\* the file parses to an object whose known sections are objects
WellFormed(file) ==
    /\ file.kind = "parsed"
    /\ IsJObj(file.value)
    /\ \A i \in 1..Len(file.value.o) :
          PyIn(file.value.o[i][1], JList([k \in 1..Len(SectionNames) |-> JStr(SectionNames[k])]))
             => IsJObj(file.value.o[i][2])

IsSectionName(name) == \E k \in 1..Len(SectionNames) : SectionNames[k] = name

\* C14: load_config keeps every key the file gives, fills each default
\* section or key the file lacks from the defaults, keeps the top-level
\* sections the defaults do not know, and returns the full default
\* configuration when there is no file.
C14_LoadConfigMerges ==
    pc # "construct" =>
        /\ config_file.kind = "missing" => loaded = default_config
        /\ WellFormed(config_file) =>
              LET given == config_file.value.o
              IN  /\ IsJObj(loaded)
                  /\ \A i \in 1..Len(given) :
                        /\ HasKey(loaded.o, given[i][1])
                        /\ IF IsSectionName(given[i][1])
                           THEN \A j \in 1..Len(given[i][2].o) :
                                   /\ HasKey(DictGet(loaded.o, given[i][1]).o,
                                             given[i][2].o[j][1])
                                   /\ Setting(loaded, given[i][1], given[i][2].o[j][1])
                                        = given[i][2].o[j][2]
                           ELSE DictGet(loaded.o, given[i][1]) = given[i][2]
                  /\ \A k \in 1..Len(SectionNames) :
                        LET section == SectionNames[k]
                            defaults == DefaultSection(section)
                        IN  /\ HasKey(loaded.o, section)
                            /\ \A j \in 1..Len(defaults) :
                                  (~HasKey(given, section)
                                   \/ ~HasKey(DictGet(given, section).o, defaults[j][1]))
                                  => /\ HasKey(DictGet(loaded.o, section).o, defaults[j][1])
                                     /\ Setting(loaded, section, defaults[j][1])
                                          = defaults[j][2]

\* a file that sets the timeout and a section of its own has been loaded:
\* the timeout is the file's, the retries are the default
C14_Witness ==
    /\ pc = "setup_logging"
    /\ WellFormed(config_file)
    /\ HasKey(config_file.value.o, "custom")
    /\ HasKey(loaded.o, "custom")
    /\ Setting(loaded, "dns_settings", "timeout") = JNum("5")
    /\ Setting(loaded, "dns_settings", "retries") = JNum("3")

\* JSON that does not parse, a value that is not an object, a known section
\* that is not an object, or a known key whose value has another type than
\* its default
Malformed(file) ==
    \/ file.kind = "unreadable"
    \/ /\ file.kind = "parsed"
       /\ \/ ~IsJObj(file.value)
          \/ \E i \in 1..Len(file.value.o) :
                /\ IsSectionName(file.value.o[i][1])
                /\ \/ ~IsJObj(file.value.o[i][2])
                   \/ \E j \in 1..Len(file.value.o[i][2].o) :
                         LET key == file.value.o[i][2].o[j][1]
                             defaults == DefaultSection(file.value.o[i][1])
                         IN  /\ HasKey(defaults, key)
                             /\ DictGet(defaults, key).t # file.value.o[i][2].o[j][2].t

\* C15: whatever a malformed file holds, the constructor completes without
\* raising, and the tool runs with the default configuration after a warning.
C15_MalformedConfigNotFatal ==
    Malformed(config_file) =>
        /\ pc # "crashed"
        /\ pc = "constructed" =>
              /\ loaded = default_config
              /\ \E i \in 1..Len(stdout) : stdout[i].event = "Warning: Could not load"
-----------------------------------------------------------------------------
(* The exports *)

\* d without the key k
WithoutKey(d, k) == SelectSeq(d, LAMBDA item : item[1] # k)

\* C16: the JSON file, parsed back, equals the result that was exported,
\* except for export_timestamp, which it holds exactly when
\* export_settings.include_timestamp is set.
C16_JsonRoundTrip ==
    files.json.written =>
        LET back == json_load(files.json.data)
        IN  /\ HasKey(back, "export_timestamp") <=> config.include_timestamp
            /\ WithoutKey(back, "export_timestamp") = ret.dict

\* a result with text records and structured records has been exported with
\* the timestamp
C16_Witness ==
    /\ files.json.written
    /\ config.include_timestamp
    /\ HasKey(ret.dict, "A_Records")
    /\ HasKey(ret.dict, "MX_Records")
    /\ DictGet(ret.dict, "A_Records") # <<>>
    /\ Len(DictGet(ret.dict, "MX_Records")) = MaxRecords

\* the number of records in the first i items of d
RECURSIVE RecordCount(_, _)
RecordCount(d, i) == IF i = 0 THEN 0 ELSE RecordCount(d, i - 1) + Len(d[i][2])

\* C17: the CSV file holds the header row, with 'Export Time' exactly when
\* include_timestamp is set, then one row per decoded record in the order of
\* the result and none for an empty list; an MX row carries the exchange and
\* 'Priority: <n>', an SOA row the mname and 'Serial: <n>', any other row the
\* text and an empty Additional Info; every row is as long as the header.
C17_CsvRows ==
    files.csv.written =>
        LET d == ret.dict
            header == files.csv.data[1]
            rows == Tail(files.csv.data)
        IN  /\ header = IF config.include_timestamp
                        THEN <<"Record Type", "Value", "Additional Info", "Export Time">>
                        ELSE <<"Record Type", "Value", "Additional Info">>
            /\ Len(rows) = RecordCount(d, Len(d))
            /\ \A r \in 1..Len(rows) : Len(rows[r]) = Len(header)
            /\ \A i \in 1..Len(d) : \A j \in 1..Len(d[i][2]) :
                  LET row == rows[RecordCount(d, i - 1) + j]
                      record == d[i][2][j]
                  IN  /\ row[1] = d[i][1]
                      /\ IF d[i][1] = "MX_Records"
                         THEN /\ row[2] = record.exchange
                              /\ row[3] = [label |-> "Priority: ", n |-> record.priority]
                         ELSE IF d[i][1] = "SOA_Records"
                         THEN /\ row[2] = record.mname
                              /\ row[3] = [label |-> "Serial: ", n |-> record.serial]
                         ELSE /\ row[2] = record.str
                              /\ row[3] = ""

\* a result with an empty list and a full list of structured records has
\* been exported with the export time
C17_Witness ==
    /\ files.csv.written
    /\ config.include_timestamp
    /\ \E i \in 1..Len(ret.dict) : ret.dict[i][2] = <<>>
    /\ \E i \in 1..Len(ret.dict) :
          ret.dict[i][1] \in {"MX_Records", "SOA_Records"} /\ Len(ret.dict[i][2]) = MaxRecords

\* the message printed last
LastPrinted(printed) == IF printed = <<>> THEN "" ELSE printed[Len(printed)].event

\* C18: an export step leaves the mapping it is given as the lookup computed
\* it, whether the write succeeds or fails; a failed export is reported and
\* raises nothing, and the export asked for after it runs on that mapping.
C18_ExportKeepsResult ==
    [][/\ pc = "export_json" =>
             /\ ret' = ret
             /\ ret' = DictRet(dns_record)
             /\ exc' = NoException
             /\ pc' = "export_csv"
             /\ export_json =>
                   \/ files'.json.written /\ LastPrinted(stdout') = "exported to JSON"
                   \/ /\ ~files'.json.written
                      /\ LastPrinted(stdout') = "Error exporting to JSON"
       /\ pc = "export_csv" =>
             /\ ret' = ret
             /\ ret' = DictRet(dns_record)
             /\ exc' = NoException
             /\ pc' = "done"
             /\ export_csv =>
                   \/ files'.csv.written /\ LastPrinted(stdout') = "exported to CSV"
                   \/ /\ ~files'.csv.written
                      /\ LastPrinted(stdout') = "Error exporting to CSV"]_vars

\* the JSON export failed and the CSV export that followed wrote the result,
\* under a configuration that adds the timestamp
C18_Witness ==
    /\ pc = "done"
    /\ config.include_timestamp
    /\ export_json
    /\ ~files.json.written
    /\ \E i \in 1..Len(stdout) : stdout[i].event = "Error exporting to JSON"
    /\ files.csv.written
    /\ ret = DictRet(dns_record)
-----------------------------------------------------------------------------
(* Failures *)

\* C19: whatever the domain, the resolver's answers and the outcome of the
\* exports, no exception leaves run_cli: one raised under its try is either
\* still on its way to the handler or was reported before run_cli returned.
C19_RunCliReturns ==
    /\ pc # "crashed"
    /\ exc # NoException =>
          \/ pc = "raised"
          \/ pc = "done" /\ LastPrinted(stdout) = "Unexpected error"

\* run_cli has returned after a lookup that raised, and after one in which
\* the resolver failed and an export failed
C19_Witness ==
    /\ pc = "done"
    /\ \/ exc = "TypeError" /\ LastPrinted(stdout) = "Unexpected error"
       \/ /\ \E k \in 1..Len(answers) : answers[k].kind = "Fault"
          /\ LastPrinted(stdout) = "Error exporting to CSV"

\* the output holds this message about this type: it was printed, or logged
\* and written
Diagnosed(event, record_type) ==
    \/ \E i \in 1..Len(stdout) :
          stdout[i].event = event /\ stdout[i].record_type = record_type
    \/ \E i \in 1..Len(Emitted(log)) :
          Emitted(log)[i].event = event /\ Emitted(log)[i].record_type = record_type

\* the resolver failed on a query for this type
Faulted(record_type) ==
    \E k \in 1..Len(answers) :
        calls[k][2] = record_type /\ answers[k].kind = "Fault"

\* C20 (as stated): in every lookup, quiet ones included, the output tells a
\* type whose query failed from a type without data: it holds the error
\* message of the type exactly when a query for the type failed.
C20_NoDataFaultTellApart ==
    \A t \in Types : Faulted(t) <=> Diagnosed("Error fetching", t)

\* C20 (amended): the same, for the lookups that are not quiet or run under a
\* logging level that lets ERROR records through.
C20_TellApartUnlessSilenced ==
    (~quiet \/ EffectiveLevel <= LevelNo("ERROR")) =>
        \A t \in Types : Faulted(t) <=> Diagnosed("Error fetching", t)

\* a quiet lookup under level ERROR met NoData for one type and a fault for
\* another: the output has the fault's message and nothing on the NoData
C20_Witness ==
    /\ quiet
    /\ config.level = "ERROR"
    /\ pc = "done"
    /\ Len(answers) = 2
    /\ answers[1].kind = "NoData"
    /\ answers[2].kind = "Fault"
    /\ calls[1][2] # calls[2][2]
    /\ Diagnosed("Error fetching", calls[2][2])
    /\ ~Diagnosed("No records found", calls[1][2])

\* C21: a lookup of a valid domain without an Absent answer has issued exactly
\* one resolve call per requested type, in the order listed, and returns a
\* mapping with exactly one key per requested type, in that same order.
C21_OneCallOneKeyPerType ==
    (Returned /\ valid /\ NoAbsent) =>
        /\ ~ret.isNone
        /\ Len(calls) = Len(record_types)
        /\ \A k \in 1..Len(calls) : calls[k] = <<website, record_types[k]>>
        /\ \A k, m \in 1..Len(calls) : calls[k][2] = calls[m][2] => k = m
        /\ DictKeys(ret.dict) = [k \in 1..Len(calls) |-> RecordsKey(calls[k][2])]

-----------------------------------------------------------------------------
(* get_dns_records called with an arbitrary string and one record type *)

InitLookup ==
    /\ DefaultTool
    /\ config = DefaultConfig
    /\ domain_arg \in CleanInputs
    /\ record_types_arg = <<"A">>
    /\ quiet = TRUE
    /\ export_json = FALSE
    /\ export_csv = FALSE
    /\ pc = "call"
    /\ website = <<>>
    /\ valid = FALSE
    /\ record_types = <<>>
    /\ idx = 0
    /\ dns_record = EmptyDict
    /\ domain_exists = FALSE
    /\ ret = NoneRet
    /\ calls = <<>>
    /\ answers = <<>>
    /\ last_result = NoneResult
    /\ log = <<>>
    /\ displayed = FALSE
    /\ files = NoFiles
    /\ lookups = 1
    /\ prev = NoPrev
    /\ stdout = <<>>
    /\ exc = NoException
    /\ script = NoScript

NextLookup ==
    \/ GetDnsRecordsEnter
    \/ FetchRecordType
    \/ GetDnsRecordsReturn

SpecLookup == InitLookup /\ [][NextLookup]_vars

\* C22: every domain string passed to the resolver is a hostname: 1 to 253
\* characters, only letters, digits, hyphens and dots, arranged as labels.
C22_ResolvedNamesAreHostnames ==
    \A k \in 1..Len(calls) : Hostname(calls[k][1])

\* C23: the string clean_domain returns never contains 'www.'.
C23_CleanedHasNoWww ==
    (pc = "cleaned" /\ ~Falsy(domain_arg)) => ~Contains(website, WWW)

\* the other order: the path cut off first, 'www.' removed afterwards
CutThenRemoveWww(x) == RemoveAll(BeforeSlash(SchemesRemoved(x)), WWW)

\* C24: clean_domain, which removes 'www.' and then cuts at the first '/',
\* returns what cutting first and removing 'www.' afterwards gives.
C24_WwwAndCutCommute ==
    (pc = "cleaned" /\ ~Falsy(domain_arg)) => website = CutThenRemoveWww(domain_arg)

\* an input with 'www.' before and inside its path segment has been cleaned
C24_Witness ==
    /\ pc = "cleaned"
    /\ domain_arg = WWW \o <<"a", "/">> \o WWW
    /\ website = <<"a">>

JsonEvents == {"exported to JSON", "Error exporting to JSON"}
CsvEvents == {"exported to CSV", "Error exporting to CSV"}

\* C25: run_cli displays and exports only once the lookup has returned a
\* mapping, and nothing after a lookup that returned None; after a mapping it
\* displays unless quiet, and attempts each export asked for, quiet or not,
\* the JSON export before the CSV export.
C25_DisplayExportAfterMapping ==
    /\ (displayed \/ JsonAttempted \/ CsvAttempted \/ files # NoFiles) =>
          (Returned /\ ~ret.isNone)
    /\ \A i, j \in 1..Len(log) :
          (log[i].event \in JsonEvents /\ log[j].event \in CsvEvents) => i < j
    /\ (pc = "done" /\ Returned /\ ~ret.isNone) =>
          /\ displayed <=> ~quiet
          /\ JsonAttempted <=> export_json
          /\ CsvAttempted <=> export_csv

-----------------------------------------------------------------------------
(* The script dns_record.py: its functions and its main.  The messages it
   prints are left out. *)

\* record_types of the script's get_dns_records
ScriptTypes == <<"A", "AAAA", "CNAME", "MX", "NS", "TXT", "SOA">>

\* the script's validate_domain
script_validate_domain(domain) ==
    IF Falsy(domain) \/ Len(domain) > 253 THEN FALSE ELSE ReMatch(domain)

\* the script's clean_domain
script_clean_domain(domain) ==
    IF Falsy(domain) THEN domain
    ELSE LET stripped == Strip(domain)
             noscheme == RemoveAll(RemoveAll(stripped, HTTP), HTTPS)
             nowww == RemoveAll(noscheme, WWW)
         IN  BeforeSlash(nowww)

\* the value the script's fetch_record_type returns for the resolver's answer
script_fetch_record_type(record_type, answer) ==
    CASE answer.kind = "Success" ->
           ListResult([i \in 1..Len(answer.records) |->
              LET r == answer.records[i]
              IN  CASE record_type = "MX" ->
                         [priority |-> r.preference, exchange |-> r.exchange.to_text]
                    [] record_type = "SOA" ->
                         [mname |-> r.mname.to_text, rname |-> r.rname.to_text,
                          serial |-> r.serial, refresh |-> r.refresh,
                          retry |-> r.retry, expire |-> r.expire,
                          minimum |-> r.minimum]
                    [] OTHER -> Str(r.to_text)])
      [] answer.kind = "Absent" -> NoneResult
      [] answer.kind = "NoData" -> ListResult(<<>>)
      [] answer.kind = "Fault" -> ListResult(<<>>)

\* the for loop of the script's get_dns_records from type i on: the resolver
\* answers the query for ScriptTypes[i] with behaviour[i]
RECURSIVE ScriptLoop(_, _, _, _)
ScriptLoop(site, behaviour, i, acc) ==
    IF i > Len(ScriptTypes) THEN [acc EXCEPT !.dns_record = DictRet(acc.dict)]
    ELSE LET record_type == ScriptTypes[i]
             result == script_fetch_record_type(record_type, behaviour[i])
             asked == [acc EXCEPT !.calls = Append(@, <<site, record_type>>),
                                  !.answers = Append(@, behaviour[i])]
         IN  IF result.isNone THEN [asked EXCEPT !.dns_record = NoneRet]
             ELSE ScriptLoop(site, behaviour, i + 1,
                             [asked EXCEPT !.dict =
                                 DictSet(@, RecordsKey(record_type), result.list)])

\* the script's get_dns_records(website, quiet): the calls it issues, the
\* answers it gets and the value it returns
script_get_dns_records(site, behaviour) ==
    LET start == [calls |-> <<>>, answers |-> <<>>, dict |-> EmptyDict,
                  dns_record |-> NoneRet]
    IN  IF ~script_validate_domain(site) THEN start
        ELSE ScriptLoop(site, behaviour, 1, start)

\* "for record_type in args.records": the entries of the result whose type
\* was asked for, in the order asked
RECURSIVE FilterFrom(_, _, _, _)
FilterFrom(d, types, i, filtered_records) ==
    IF i > Len(types) THEN filtered_records
    ELSE LET key == RecordsKey(types[i])
         IN  FilterFrom(d, types, i + 1,
                        IF HasKey(d, key) THEN DictSet(filtered_records, key, DictGet(d, key))
                        ELSE filtered_records)

\* the rows the script's export_to_csv writes for one list of records
ScriptCsvRows(key, records) ==
    [j \in 1..Len(records) |->
        IF IsDict(records[j])
        THEN IF "exchange" \in DOMAIN records[j]
             THEN <<key, records[j].exchange, Labelled("Priority: ", records[j].priority)>>
             ELSE <<key, records[j].mname, Labelled("Serial: ", records[j].serial)>>
        ELSE <<key, records[j].str, "">>]

RECURSIVE ScriptCsvRowsFrom(_, _)
ScriptCsvRowsFrom(d, i) ==
    IF i > Len(d) THEN <<>>
    ELSE ScriptCsvRows(d[i][1], d[i][2]) \o ScriptCsvRowsFrom(d, i + 1)

ScriptCsvData(d) ==
    <<<<"Record Type", "Value", "Additional Info">>>> \o ScriptCsvRowsFrom(d, 1)

\* the tool's get_dns_records call is over: it returned or raised
ToolFinished == pc \in {"returned", "raised"}

\* what the resolver answers to a query only the script issues
OtherAnswers(record_type) ==
    {Absent, NoData, Success(<<RawRecord(record_type, 1)>>)}

\* the same resolver behaviour: a query for a type the tool asked about gets
\* the answer the tool got
SameAnswers(record_type) ==
    LET asked == {k \in 1..Len(calls) : calls[k][2] = record_type}
    IN  IF asked = {} THEN OtherAnswers(record_type)
        ELSE {answers[CHOOSE k \in asked : \A m \in asked : k <= m]}

\* the resolver's answers to the script's queries, one per type of ScriptTypes
RECURSIVE BehavioursFrom(_)
BehavioursFrom(i) ==
    IF i > Len(ScriptTypes) THEN {<<>>}
    ELSE {<<a>> \o rest : a \in SameAnswers(ScriptTypes[i]), rest \in BehavioursFrom(i + 1)}

\* main: "website = clean_domain(args.domain)"
ScriptMainClean ==
    /\ script.pc = "main"
    /\ script' = [script EXCEPT !.pc = "call",
                                !.website = script_clean_domain(domain_arg)]
    /\ UNCHANGED <<config, domain_arg, record_types_arg, quiet, export_json,
                   export_csv, pc, website, valid, record_types, idx, dns_record,
                   domain_exists, ret, calls, answers, last_result, log,
                   displayed, files, lookups, prev, stdout, exc, config_file,
                   loaded>>

\* the script's get_dns_records(website, quiet), run once the tool's lookup is
\* over, against the same resolver behaviour
ScriptGetDnsRecords ==
    /\ script.pc = "call"
    /\ ToolFinished
    /\ \E behaviour \in BehavioursFrom(1) :
         LET r == script_get_dns_records(script.website, behaviour)
         IN  script' = [script EXCEPT !.pc = "returned",
                                      !.calls = r.calls,
                                      !.answers = r.answers,
                                      !.dns_record = r.dns_record]
    /\ UNCHANGED <<config, domain_arg, record_types_arg, quiet, export_json,
                   export_csv, pc, website, valid, record_types, idx, dns_record,
                   domain_exists, ret, calls, answers, last_result, log,
                   displayed, files, lookups, prev, stdout, exc, config_file,
                   loaded>>

\* main after the lookup: leave on a falsy result, else keep the types asked
\* for with --records, display unless quiet, and export; a write may fail
ScriptMainRest ==
    /\ script.pc = "returned"
    /\ IF NotDnsRecord(script.dns_record)
       THEN script' = [script EXCEPT !.pc = "done"]
       ELSE LET d == script.dns_record.dict
                filtered == IF NotRecordTypes(record_types_arg) THEN d
                            ELSE FilterFrom(d, record_types_arg, 1, EmptyDict)
            IN  \E json_ok, csv_ok \in BOOLEAN :
                  /\ export_json \/ json_ok
                  /\ export_csv \/ csv_ok
                  /\ script' =
                       [script EXCEPT
                          !.pc = "done",
                          !.dns_record = DictRet(filtered),
                          !.displayed = ~quiet,
                          !.files =
                             [json |-> IF export_json /\ json_ok
                                       THEN [written |-> TRUE, data |-> json_dump(filtered)]
                                       ELSE NoFile,
                              csv |-> IF export_csv /\ csv_ok
                                      THEN [written |-> TRUE, data |-> ScriptCsvData(filtered)]
                                      ELSE NoFile]]
    /\ UNCHANGED <<config, domain_arg, record_types_arg, quiet, export_json,
                   export_csv, pc, website, valid, record_types, idx, dns_record,
                   domain_exists, ret, calls, answers, last_result, log,
                   displayed, files, lookups, prev, stdout, exc, config_file,
                   loaded>>

-----------------------------------------------------------------------------
(* The tool and the script, each run on the same input against the same
   resolver behaviour *)

\* a get_dns_records call of the tool that is about to start
CallStart ==
    /\ pc = "call"
    /\ website = <<>>
    /\ valid = FALSE
    /\ record_types = <<>>
    /\ idx = 0
    /\ dns_record = EmptyDict
    /\ domain_exists = FALSE
    /\ ret = NoneRet
    /\ calls = <<>>
    /\ answers = <<>>
    /\ last_result = NoneResult
    /\ log = <<>>
    /\ displayed = FALSE
    /\ files = NoFiles
    /\ lookups = 1
    /\ prev = NoPrev
    /\ stdout = <<>>
    /\ exc = NoException

\* domains as the script's main hands them to get_dns_records: cleaned once
CleanedDomains ==
    {script_clean_domain(x) :
        x \in { <<" ">> \o HTTPS \o WWW \o <<"a", ".", "b", "/", "p">>,
                <<"w">> \o WWW \o <<"w", "w", ".", "a">>,
                <<"a", ".", ".", "b">> }}

\* both get_dns_records are given the same cleaned domain; the tool is left to
\* its default seven types
InitFullSet ==
    /\ DefaultTool
    /\ config = DefaultConfig
    /\ domain_arg \in CleanedDomains
    /\ record_types_arg = NoTypes
    /\ quiet = TRUE
    /\ export_json = FALSE
    /\ export_csv = FALSE
    /\ CallStart
    /\ script = [NoScript EXCEPT !.pc = "call", !.website = domain_arg]

NextFullSet ==
    \/ GetDnsRecordsEnter
    \/ FetchRecordType
    \/ GetDnsRecordsReturn
    \/ ScriptGetDnsRecords

SpecFullSet == InitFullSet /\ [][NextFullSet]_vars

\* C26: on the same cleaned domain and resolver behaviour the script's
\* get_dns_records and the tool's, with its default seven types, issue the
\* same sequence of resolve calls and return the same value.
C26_SameCallsSameValue ==
    script.pc = "returned" =>
        /\ script.calls = calls
        /\ script.dns_record = ret

\* --records R: a non-empty list of types, none repeated
RecordsArgs ==
    {l \in ListsUpTo(Types, MaxTypes) :
        /\ l # <<>>
        /\ \A k, m \in 1..Len(l) : l[k] = l[m] => k = m}

\* the domain argument of both programs
ScriptDomains ==
    { <<" ">> \o HTTPS \o WWW \o <<"a", ".", "b", "/", "p">>,
      <<"a", ".", ".", "b">> }

\* the script run as "dns_record.py DOMAIN --records R", the tool called as
\* get_dns_records(DOMAIN, record_types=R)
InitRestricted ==
    /\ DefaultTool
    /\ config = DefaultConfig
    /\ domain_arg \in ScriptDomains
    /\ record_types_arg \in RecordsArgs
    /\ quiet = FALSE
    /\ export_json \in BOOLEAN
    /\ export_csv \in BOOLEAN
    /\ CallStart
    /\ script = [NoScript EXCEPT !.pc = "main"]

NextRestricted ==
    \/ GetDnsRecordsEnter
    \/ FetchRecordType
    \/ GetDnsRecordsReturn
    \/ ScriptMainClean
    \/ ScriptGetDnsRecords
    \/ ScriptMainRest

SpecRestricted == InitRestricted /\ [][NextRestricted]_vars

\* C27: run with --records R, the script ends with the mapping (or the
\* failure) that the tool's get_dns_records returns for record_types = R, and
\* has queried the resolver for types of R only.
C27_RestrictedSameOutcome ==
    script.pc = "done" =>
        /\ script.dns_record = ret
        /\ \A k \in 1..Len(script.calls) :
              \E m \in 1..Len(record_types_arg) :
                  script.calls[k][2] = record_types_arg[m]

\* C28: called with no record types or with an empty list, get_dns_records
\* queries the configured record_types in their configured order, all of them
\* unless one is answered Absent; and a mapping it returns has no key but
\* those of the types it queried.
C28_DefaultTypesInOrder ==
    /\ (pc # "call" /\ valid /\ record_types_arg \in {NoTypes, <<>>}) =>
          /\ record_types = config.record_types
          /\ Len(calls) <= Len(config.record_types)
          /\ \A k \in 1..Len(calls) : calls[k] = <<website, config.record_types[k]>>
          /\ (Returned /\ NoAbsent) => Len(calls) = Len(config.record_types)
    /\ (Returned /\ ~ret.isNone) =>
          \A i \in 1..Len(ret.dict) :
              \E k \in 1..Len(calls) : ret.dict[i][1] = RecordsKey(calls[k][2])

\* an empty list was passed and the three configured types were queried in
\* the configured order
C28_Witness ==
    /\ pc = "done"
    /\ record_types_arg = <<>>
    /\ config.record_types = <<"MX", "A", "SOA">>
    /\ Len(calls) = 3
    /\ ~ret.isNone
    /\ DictKeys(ret.dict) = <<RecordsKey("MX"), RecordsKey("A"), RecordsKey("SOA")>>
=============================================================================
